---- MODULE Spec2Model ----
(***************************************************************************)
(* Key derivation (kdf.rs): derive_epsilon, derive_key,                    *)
(* derive_key_for_account and near_public_key_to_affine.                   *)
(*                                                                         *)
(* The curve, the integers and the digests are scaled down so that TLC can *)
(* enumerate them: secp256k1 (y^2 = x^3 + 7 over a 256-bit prime field, of *)
(* prime order n < 2^256) becomes y^2 = x^3 + 7 over F_13, a group of      *)
(* prime order 7; a byte has ByteBase values; a field element and a U256   *)
(* take FieldLen and HashLen bytes, so that, as for secp256k1, some U256   *)
(* values are >= the group order and some coordinate encodings are >= the  *)
(* field modulus.  sha256 and keccak256 are deterministic folds over the   *)
(* input bytes.  Strings are sequences of character codes.                 *)
(***************************************************************************)
EXTENDS Integers, Sequences, FiniteSets, TLC

VARIABLES
    \* derive_key_for_account (Spec)
    mpc_public_key, account_id, path, pc,
    derivation_path, epsilon, affine_point, encoded, address, prev,
    \* near_public_key_to_affine (SpecParse)
    public_key, wasm32, bytes, ppc, result

vars == <<mpc_public_key, account_id, path, pc, derivation_path, epsilon,
          affine_point, encoded, address, prev,
          public_key, wasm32, bytes, ppc, result>>

kdfVars == <<mpc_public_key, account_id, path, pc, derivation_path, epsilon,
             affine_point, encoded, address, prev>>

parseVars == <<public_key, wasm32, bytes, ppc, result>>

----------------------------------------------------------------------------
(* Bounds of the model *)

\* longest owner identity, in characters
MaxOwnerLen == 2

\* longest path, in characters
MaxPathLen == 1

\* how many bytes longer than an uncompressed key's body a blob's body may be
MaxExtra == 1

----------------------------------------------------------------------------
(* Scaled-down constants of the curve library and of the encodings *)

\* values of one byte (u8: 256)
ByteBase == 4

\* bytes of one field element, FieldBytes (secp256k1: 32)
FieldLen == 2

\* bytes of a sha256 digest and of a U256 (32)
HashLen == 2

\* bytes of a keccak256 digest (32)
KeccakLen == 3

\* bytes of an address, digest[12..] (20)
AddressLen == 2

\* the prime of the base field
FieldModulus == 13

\* the prime order of the group, the modulus of Scalar
ORDER == 7

\* the curve's b in y^2 = x^3 + b
CurveB == 7

\* sec1::Tag
TagIdentity == 0

TagCompressedEvenY == 2

TagCompressedOddY == 3

TagUncompressed == 4

TagCompact == 5

\* near_sdk::CurveType, the first byte of a near_sdk::PublicKey
ED25519 == 0

SECP256K1 == 1

CurveTypes == {ED25519, SECP256K1}

\* the separator character ','
Comma == 44

\* "near-mpc-recovery v0.1.0 epsilon derivation:"
EPSILON_DERIVATION_PREFIX ==
    <<110, 101, 97, 114, 45, 109, 112, 99, 45, 114, 101, 99, 111, 118, 101,
      114, 121, 32, 118, 48, 46, 49, 46, 48, 32, 101, 112, 115, 105, 108,
      111, 110, 32, 100, 101, 114, 105, 118, 97, 116, 105, 111, 110, 58>>

\* the characters strings are drawn from: 'a' and ','
Chars == {97, Comma}

Strings(n) == UNION {[1..k -> Chars] : k \in 0..n}

\* AccountId validation admits lowercase alphanumerics and the separators
\* '-', '_' and '.': never ','.  An AccountId built without validation is
\* any string.
IsAccountId(s) == \A i \in 1..Len(s) : s[i] # Comma

Byte == 0..(ByteBase - 1)

----------------------------------------------------------------------------
(* Bytes and integers *)

RECURSIVE Pow(_, _)
Pow(b, e) == IF e = 0 THEN 1 ELSE b * Pow(b, e - 1)

\* U256::from_le_slice: the little-endian value of the bytes
RECURSIVE from_le_slice(_)
from_le_slice(bs) ==
    IF bs = <<>> THEN 0 ELSE Head(bs) + ByteBase * from_le_slice(Tail(bs))

\* the big-endian value of the bytes (FieldElement::from_bytes reads this)
RECURSIVE from_be_slice(_)
from_be_slice(bs) ==
    IF bs = <<>> THEN 0
    ELSE Head(bs) * Pow(ByteBase, Len(bs) - 1) + from_be_slice(Tail(bs))

\* v as n big-endian bytes (FieldElement::to_bytes, a digest's bytes)
to_be_bytes(v, n) == [i \in 1..n |-> (v \div Pow(ByteBase, n - i)) % ByteBase]

\* Scalar::from_uint_unchecked wraps the integer as it is: no reduction
from_uint_unchecked(u) == u

\* ScalarExt::from_bytes
from_bytes(bs) == from_uint_unchecked(from_le_slice(bs))

\* sha256: a deterministic digest of HashLen bytes.  Each input byte b takes
\* the state h to 3h + b + 1; Sha256Map(bs) is <<m, c>> with the state after
\* bs being m*h + c, composed by halves so that a long message is evaluated
\* in logarithmic depth.
RECURSIVE Sha256Map(_)
Sha256Map(bs) ==
    IF Len(bs) = 0 THEN <<1, 0>>
    ELSE IF Len(bs) = 1 THEN <<3, bs[1] + 1>>
    ELSE LET k == Len(bs) \div 2
             l == Sha256Map(SubSeq(bs, 1, k))
             r == Sha256Map(SubSeq(bs, k + 1, Len(bs)))
             m == Pow(ByteBase, HashLen)
         IN  <<(r[1] * l[1]) % m, (r[1] * l[2] + r[2]) % m>>

sha256(bs) ==
    LET f == Sha256Map(bs)
    IN  to_be_bytes((f[1] * 1 + f[2]) % Pow(ByteBase, HashLen), HashLen)

\* keccak256: a deterministic digest of KeccakLen bytes
RECURSIVE Keccak256State(_, _)
Keccak256State(bs, h) ==
    IF bs = <<>> THEN h
    ELSE Keccak256State(Tail(bs),
                        (h * 5 + Head(bs) + 3) % Pow(ByteBase, KeccakLen))

keccak256(bs) == to_be_bytes(Keccak256State(bs, 2), KeccakLen)

----------------------------------------------------------------------------
(* The curve group *)

Fp == 0..(FieldModulus - 1)

FMod(a) == a % FieldModulus

FInv(a) == CHOOSE b \in Fp : FMod(a * b) = 1

\* AffinePoint { x, y, infinity }
IDENTITY == [x |-> 0, y |-> 0, infinity |-> TRUE]

Affine(x, y) == [x |-> x, y |-> y, infinity |-> FALSE]

\* the curve equation y^2 = x^3 + b
IsOnCurve(x, y) == FMod(y * y) = FMod(x * x * x + CurveB)

\* ProjectivePoint { X, Y, Z }: (X/Z, Y/Z), the identity has Z = 0
ProjectiveIdentity == [X |-> 0, Y |-> 1, Z |-> 0]

ToProjective(p) ==
    IF p.infinity THEN ProjectiveIdentity ELSE [X |-> p.x, Y |-> p.y, Z |-> 1]

\* ProjectivePoint::to_affine
to_affine(q) ==
    IF q.Z = 0 THEN IDENTITY
    ELSE LET zi == FInv(q.Z) IN Affine(FMod(q.X * zi), FMod(q.Y * zi))

ProjectiveDouble(q) ==
    IF q.Z = 0 \/ q.Y = 0 THEN ProjectiveIdentity
    ELSE LET w == FMod(3 * q.X * q.X)
             s == FMod(q.Y * q.Z)
             b == FMod(q.X * q.Y * s)
             h == FMod(w * w - 8 * b)
         IN  [X |-> FMod(2 * h * s),
              Y |-> FMod(w * (4 * b - h) - 8 * q.Y * q.Y * s * s),
              Z |-> FMod(8 * s * s * s)]

\* ProjectivePoint + ProjectivePoint, the group law
ProjectiveAdd(q1, q2) ==
    IF q1.Z = 0 THEN q2
    ELSE IF q2.Z = 0 THEN q1
    ELSE LET u1 == FMod(q2.Y * q1.Z)
             u2 == FMod(q1.Y * q2.Z)
             v1 == FMod(q2.X * q1.Z)
             v2 == FMod(q1.X * q2.Z)
         IN  IF v1 = v2
             THEN IF u1 = u2 THEN ProjectiveDouble(q1) ELSE ProjectiveIdentity
             ELSE LET u == FMod(u1 - u2)
                      v == FMod(v1 - v2)
                      w == FMod(q1.Z * q2.Z)
                      a == FMod(u * u * w - v * v * v - 2 * v * v * v2)
                  IN  [X |-> FMod(v * a),
                       Y |-> FMod(u * (v * v * v2 - a) - v * v * v * u2),
                       Z |-> FMod(v * v * v * w)]

\* ProjectivePoint * Scalar: the point added to itself as many times as the
\* integer the scalar holds
RECURSIVE ProjectiveMul(_, _)
ProjectiveMul(q, k) ==
    IF k = 0 THEN ProjectiveIdentity
    ELSE ProjectiveAdd(ProjectiveMul(q, k - 1), q)

\* ProjectivePoint::GENERATOR
GENERATOR == [X |-> 7, Y |-> 5, Z |-> 1]

\* every affine point of the curve but the identity
CurvePoints == {Affine(x, y) : <<x, y>> \in {c \in Fp \X Fp : IsOnCurve(c[1], c[2])}}

----------------------------------------------------------------------------
(* kdf.rs: epsilon, child key, address *)

\* format!("{EPSILON_DERIVATION_PREFIX}{signer_id},{path}")
FormatNoSeparator(signer_id, p) == EPSILON_DERIVATION_PREFIX \o signer_id \o p

FormatDerivationPath(signer_id, p) ==
    EPSILON_DERIVATION_PREFIX \o signer_id \o <<Comma>> \o p

\* derive_epsilon; as_bytes of a string of character codes is the string
derive_epsilon_stateful(signer_id, p) ==
    IF prev.valid
    THEN (from_bytes(sha256(FormatDerivationPath(signer_id, p))) + 1)
             % Pow(ByteBase, HashLen)
    ELSE from_bytes(sha256(FormatDerivationPath(signer_id, p)))

derive_epsilon(signer_id, p) ==
    from_bytes(sha256(FormatDerivationPath(signer_id, p)))

\* derive_key: (GENERATOR * epsilon + public_key).to_affine()
derive_key_scaled_master(pk, eps) ==
    to_affine(ProjectiveMul(ToProjective(pk), eps))

derive_key(pk, eps) ==
    to_affine(ProjectiveAdd(ProjectiveMul(GENERATOR, eps), ToProjective(pk)))

\* AffinePoint::to_encoded_point(compress)
to_encoded_point(p, compress) ==
    IF p.infinity THEN <<TagIdentity>>
    ELSE IF compress
    THEN <<IF p.y % 2 = 0 THEN TagCompressedEvenY ELSE TagCompressedOddY>>
             \o to_be_bytes(p.x, FieldLen)
    ELSE <<TagUncompressed>> \o to_be_bytes(p.x, FieldLen)
             \o to_be_bytes(p.y, FieldLen)

\* &encoded.as_bytes()[1..]
RawPublicKeyWithTag(enc) == enc

RawPublicKey(enc) == Tail(enc)

\* ethers_core::utils::raw_public_key_to_address asserts that the key has
\* the length of two field elements, and panics otherwise
RawPublicKeyLenOk(pubkey) == Len(pubkey) = 2 * FieldLen

\* Address::from_slice(&keccak256(pubkey)[12..])
raw_public_key_to_address(pubkey) ==
    SubSeq(keccak256(pubkey), KeccakLen - AddressLen + 1, KeccakLen)

NoCall ==
    [valid |-> FALSE, account_id |-> <<>>, path |-> <<>>,
     derivation_path |-> <<>>, epsilon |-> 0, affine_point |-> IDENTITY,
     address |-> <<>>, pc |-> "call"]

ThisCall ==
    [valid |-> TRUE, account_id |-> account_id, path |-> path,
     derivation_path |-> derivation_path, epsilon |-> epsilon,
     affine_point |-> affine_point, address |-> address, pc |-> pc]

\* a caller holds the master key and picks an owner and a path
KdfInit ==
    /\ mpc_public_key \in CurvePoints
    /\ account_id \in Strings(MaxOwnerLen)
    /\ path \in Strings(MaxPathLen)
    /\ pc = "call"
    /\ derivation_path = <<>>
    /\ epsilon = 0
    /\ affine_point = IDENTITY
    /\ encoded = <<>>
    /\ address = <<>>
    /\ prev = NoCall

ParseIdle ==
    /\ public_key = <<SECP256K1>>
    /\ wasm32 = FALSE
    /\ bytes = <<>>
    /\ ppc = "idle"
    /\ result = [kind |-> "None", point |-> <<>>, curve_type |-> <<>>]

\* let epsilon = derive_epsilon(account_id, path);
DeriveEpsilon ==
    /\ pc = "call"
    /\ derivation_path' = FormatDerivationPath(account_id, path)
    /\ epsilon' = derive_epsilon(account_id, path)
    /\ pc' = "epsilon"
    /\ UNCHANGED <<mpc_public_key, account_id, path, affine_point, encoded,
                   address, prev>>
    /\ UNCHANGED parseVars

\* let affine_point = derive_key(mpc_public_key, epsilon);
DeriveKey ==
    /\ pc = "epsilon"
    /\ affine_point' = derive_key(mpc_public_key, epsilon)
    /\ pc' = "key"
    /\ UNCHANGED <<mpc_public_key, account_id, path, derivation_path, epsilon,
                   encoded, address, prev>>
    /\ UNCHANGED parseVars

\* let encoded = affine_point.to_encoded_point(false);
\* raw_public_key_to_address(&encoded.as_bytes()[1..])
DeriveAddress ==
    /\ pc = "key"
    /\ encoded' = to_encoded_point(affine_point, FALSE)
    /\ IF RawPublicKeyLenOk(RawPublicKey(encoded'))
       THEN /\ address' = raw_public_key_to_address(RawPublicKey(encoded'))
            /\ pc' = "returned"
       ELSE /\ address' = <<>>
            /\ pc' = "panicked"
    /\ UNCHANGED <<mpc_public_key, account_id, path, derivation_path, epsilon,
                   affine_point, prev>>
    /\ UNCHANGED parseVars

\* the next call of derive_key_for_account, with the same master key
NextCall ==
    /\ pc \in {"returned", "panicked"}
    /\ prev' = ThisCall
    /\ account_id' \in Strings(MaxOwnerLen)
    /\ path' \in Strings(MaxPathLen)
    /\ pc' = "call"
    /\ derivation_path' = <<>>
    /\ epsilon' = 0
    /\ affine_point' = IDENTITY
    /\ encoded' = <<>>
    /\ address' = <<>>
    /\ UNCHANGED mpc_public_key
    /\ UNCHANGED parseVars

Init == KdfInit /\ ParseIdle

Next == DeriveEpsilon \/ DeriveKey \/ DeriveAddress \/ NextCall

Spec == Init /\ [][Next]_vars

----------------------------------------------------------------------------
(* kdf.rs: near_public_key_to_affine *)

\* near_sdk::PublicKey::curve_type: the first byte of the key
curve_type(pk) == pk[1]

\* CurveType::data_len: the bytes of a key of the curve (32 and 64)
data_len(ct) == IF ct = ED25519 THEN FieldLen ELSE 2 * FieldLen

\* the blobs near_sdk::PublicKey's validating constructors admit
IsPublicKey(pk) ==
    /\ Len(pk) >= 1
    /\ pk[1] \in CurveTypes
    /\ Len(pk) = 1 + data_len(pk[1])

\* every blob the parser is run on: a curve type and any body of up to an
\* uncompressed key's length and MaxExtra more.  near_sdk::PublicKey admits
\* those of IsPublicKey; the others are the truncated and the overlong ones.
Blobs ==
    {<<ct>> \o body :
        ct \in CurveTypes,
        body \in UNION {[1..k -> Byte] : k \in 0..(2 * FieldLen + MaxExtra)}}

Ok(p) == [kind |-> "Ok", point |-> <<p>>, curve_type |-> <<>>]

WrongCurveType(ct) ==
    [kind |-> "WrongCurveType", point |-> <<>>, curve_type |-> <<ct>>]

DecodingError == [kind |-> "DecodingError", point |-> <<>>, curve_type |-> <<>>]

InvalidKeyData == [kind |-> "InvalidKeyData", point |-> <<>>, curve_type |-> <<>>]

NoResult == [kind |-> "None", point |-> <<>>, curve_type |-> <<>>]

\* #[cfg(target_arch = "wasm32")] if curve_type != CurveType::SECP256K1
CurveTypeNeverRejected(pk, wasm) == FALSE

CurveTypeRejected(pk, wasm) == wasm /\ curve_type(pk) # SECP256K1

\* bytes[0] = u8::from(Tag::Uncompressed)
KeepFirstByte(bs) == bs

NormalizeTagOfSecp256k1(bs) ==
    IF bs[1] = SECP256K1 THEN [bs EXCEPT ![1] = TagUncompressed] ELSE bs

NormalizeTag(bs) == [bs EXCEPT ![1] = TagUncompressed]

\* sec1::Tag::from_u8 accepts these
IsTag(t) ==
    t \in {TagIdentity, TagCompressedEvenY, TagCompressedOddY,
           TagUncompressed, TagCompact}

\* sec1::Tag::message_len
message_len(t) ==
    IF t = TagIdentity THEN 1
    ELSE IF t = TagUncompressed THEN 1 + 2 * FieldLen
    ELSE 1 + FieldLen

\* EncodedPoint::from_bytes succeeds: a known tag and the tag's length
EncodedPointFromBytesOk(bs) ==
    /\ Len(bs) >= 1
    /\ IsTag(bs[1])
    /\ Len(bs) = message_len(bs[1])

\* AffinePoint::decompress: the point of abscissa x and the parity of y
Decompress(x, odd) ==
    IF x >= FieldModulus THEN <<>>
    ELSE LET ys == {y \in Fp : IsOnCurve(x, y) /\ (y % 2 = 1) = odd}
         IN  IF ys = {} THEN <<>> ELSE <<Affine(x, CHOOSE y \in ys : TRUE)>>

\* AffinePoint::from_encoded_point as an Option: <<>> or <<point>>
FromEncodedPointUnvalidated(enc) ==
    IF enc[1] = TagIdentity THEN <<IDENTITY>>
    ELSE <<Affine(from_be_slice(SubSeq(enc, 2, 1 + FieldLen)) % FieldModulus,
                  from_be_slice(SubSeq(enc, 2 + FieldLen, Len(enc)))
                      % FieldModulus)>>

FromEncodedPoint(enc) ==
    IF enc[1] = TagIdentity THEN <<IDENTITY>>
    ELSE IF enc[1] = TagUncompressed
    THEN LET x == from_be_slice(SubSeq(enc, 2, 1 + FieldLen))
             y == from_be_slice(SubSeq(enc, 2 + FieldLen, 1 + 2 * FieldLen))
         IN  IF x < FieldModulus /\ y < FieldModulus /\ IsOnCurve(x, y)
             THEN <<Affine(x, y)>>
             ELSE <<>>
    ELSE Decompress(from_be_slice(SubSeq(enc, 2, 1 + FieldLen)),
                    enc[1] = TagCompressedOddY)

\* affine.ok_or(PublicKeyConversionError::InvalidKeyData)
OkOr(option, err) == IF option = <<>> THEN err ELSE Ok(option[1])

\* near_public_key_to_affine as a whole
near_public_key_to_affine(pk, wasm) ==
    IF CurveTypeRejected(pk, wasm) THEN WrongCurveType(curve_type(pk))
    ELSE LET bs == NormalizeTag(pk)
         IN  IF ~EncodedPointFromBytesOk(bs) THEN DecodingError
             ELSE OkOr(FromEncodedPoint(bs), InvalidKeyData)

KdfIdle ==
    /\ mpc_public_key = IDENTITY
    /\ account_id = <<>>
    /\ path = <<>>
    /\ pc = "idle"
    /\ derivation_path = <<>>
    /\ epsilon = 0
    /\ affine_point = IDENTITY
    /\ encoded = <<>>
    /\ address = <<>>
    /\ prev = NoCall

\* a build (wasm32 or not) is handed a key
ParseInit ==
    /\ public_key \in Blobs
    /\ wasm32 \in BOOLEAN
    /\ bytes = <<>>
    /\ ppc = "start"
    /\ result = NoResult

\* the wasm-only curve-type check
CheckCurveType ==
    /\ ppc = "start"
    /\ IF CurveTypeRejected(public_key, wasm32)
       THEN /\ result' = WrongCurveType(curve_type(public_key))
            /\ ppc' = "done"
       ELSE /\ result' = result
            /\ ppc' = "checked"
    /\ UNCHANGED <<public_key, wasm32, bytes>>
    /\ UNCHANGED kdfVars

\* let mut bytes = public_key.into_bytes(); bytes[0] = Tag::Uncompressed
OverwriteTag ==
    /\ ppc = "checked"
    /\ bytes' = NormalizeTag(public_key)
    /\ ppc' = "normalized"
    /\ UNCHANGED <<public_key, wasm32, result>>
    /\ UNCHANGED kdfVars

\* EncodedPoint::from_bytes(&bytes)?, AffinePoint::from_encoded_point, ok_or
Decode ==
    /\ ppc = "normalized"
    /\ result' = IF ~EncodedPointFromBytesOk(bytes) THEN DecodingError
                 ELSE OkOr(FromEncodedPoint(bytes), InvalidKeyData)
    /\ ppc' = "done"
    /\ UNCHANGED <<public_key, wasm32, bytes>>
    /\ UNCHANGED kdfVars

ParseNext == CheckCurveType \/ OverwriteTag \/ Decode

InitParse == KdfIdle /\ ParseInit

SpecParse == InitParse /\ [][ParseNext]_vars

----------------------------------------------------------------------------
(* Claims about derive_epsilon, derive_key and derive_key_for_account *)

EpsilonSet == pc \in {"epsilon", "key", "returned", "panicked"}

KeySet == pc \in {"key", "returned", "panicked"}

\* C1: the epsilon derive_epsilon returns is the little-endian value of the
\* digest of the message reduced modulo the group order, and so lies in
\* 0..ORDER-1, also when the digest's value is ORDER or more.
C1_EpsilonReducedModOrder ==
    EpsilonSet =>
        /\ epsilon =
               from_le_slice(sha256(FormatDerivationPath(account_id, path)))
                   % ORDER
        /\ epsilon \in 0..(ORDER - 1)

C3_NoIdentityChildKey ==
    IsAccountId(account_id) =>
        /\ KeySet => ~affine_point.infinity
        /\ pc = "returned" => ~affine_point.infinity

MultiplesOfG ==
    <<IDENTITY, Affine(7, 5), Affine(8, 5), Affine(11, 8), Affine(11, 5),
      Affine(8, 8), Affine(7, 8)>>

\* the k in 0..ORDER-1 with p = k*G
DiscreteLog(p) == CHOOSE k \in 0..(ORDER - 1) : MultiplesOfG[k + 1] = p

\* C8: the child key is G*epsilon + master (the point whose discrete log is
\* epsilon plus the master's, modulo the order), and for the one master key
\* two epsilons that differ modulo the order give different child keys.
C8_ChildKeyIsOffsetAndInjective ==
    KeySet =>
        /\ affine_point =
               MultiplesOfG[((epsilon + DiscreteLog(mpc_public_key)) % ORDER) + 1]
        /\ (prev.valid /\ prev.epsilon % ORDER # epsilon % ORDER)
               => prev.affine_point # affine_point

\* Two runs whose epsilons differ modulo the order have derived their keys,
\* the later epsilon being ORDER or more.
C8_Witness ==
    /\ KeySet /\ prev.valid
    /\ prev.epsilon % ORDER # epsilon % ORDER
    /\ epsilon >= ORDER

\* C9: for a child key that is not the identity, derive_key_for_account
\* returns an address of AddressLen bytes, the last AddressLen bytes of
\* keccak256 of X || Y (each coordinate FieldLen big-endian bytes), the tag
\* byte left out.
C9_AddressOfChildKey ==
    (pc \in {"returned", "panicked"} /\ ~affine_point.infinity) =>
        /\ pc = "returned"
        /\ Len(address) = AddressLen
        /\ LET digest == keccak256(to_be_bytes(affine_point.x, FieldLen)
                                     \o to_be_bytes(affine_point.y, FieldLen))
           IN  address = [i \in 1..AddressLen |->
                              digest[KeccakLen - AddressLen + i]]

\* An address has been returned for a child key that is not the identity.
C9_Witness == pc = "returned" /\ ~affine_point.infinity /\ Len(address) = AddressLen

----------------------------------------------------------------------------
(* Claims about near_public_key_to_affine *)

\* C4: parsing a public key whose curve type is not SECP256K1 fails with
\* WrongCurveType carrying that curve type, whatever the body, before the
\* first byte is overwritten and before any decoding.
C4_WrongCurveTypeAlways ==
    (ppc = "done" /\ IsPublicKey(public_key)
       /\ curve_type(public_key) # SECP256K1)
        => /\ result = WrongCurveType(curve_type(public_key))
           /\ bytes = <<>>

\* C4 as amended: in the wasm32 build a blob whose curve type is not
\* SECP256K1 fails with WrongCurveType carrying that curve type, whatever
\* the body, with the bytes neither overwritten nor decoded; in any other
\* build the check is absent, the blob is overwritten and decoded like any
\* other, and an ED25519 key fails with DecodingError.
C4_WrongCurveTypeInWasm ==
    /\ (ppc = "done" /\ curve_type(public_key) # SECP256K1) =>
           IF wasm32
           THEN /\ result = WrongCurveType(curve_type(public_key))
                /\ bytes = <<>>
           ELSE /\ result.kind # "WrongCurveType"
                /\ bytes = [public_key EXCEPT ![1] = TagUncompressed]
                /\ IsPublicKey(public_key) => result = DecodingError
    /\ result.kind = "WrongCurveType" =>
           wasm32 /\ curve_type(public_key) # SECP256K1

\* The wasm32 build has rejected an ED25519 key.
C4_Witness ==
    /\ ppc = "done" /\ wasm32 /\ IsPublicKey(public_key)
    /\ curve_type(public_key) = ED25519
    /\ result.kind = "WrongCurveType"

\* C5: for a blob of curve type SECP256K1, Ok(P) is returned only for a P on
\* the curve whose coordinates are the blob's body; a blob whose length is
\* not that of an uncompressed point yields DecodingError; one of that
\* length whose X and Y are not a point of the curve yields InvalidKeyData.
C5_ParseOutcome ==
    (ppc = "done" /\ curve_type(public_key) = SECP256K1) =>
        /\ result.kind = "Ok" =>
               LET p == result.point[1]
               IN  /\ ~p.infinity
                   /\ p.x \in Fp /\ p.y \in Fp
                   /\ (p.y * p.y - p.x * p.x * p.x - CurveB) % FieldModulus = 0
                   /\ Tail(public_key) =
                          to_be_bytes(p.x, FieldLen) \o to_be_bytes(p.y, FieldLen)
        /\ Len(public_key) # 1 + 2 * FieldLen => result = DecodingError
        /\ (Len(public_key) = 1 + 2 * FieldLen
              /\ ~\E q \in {MultiplesOfG[k] : k \in 2..ORDER} :
                     Tail(public_key) =
                         to_be_bytes(q.x, FieldLen) \o to_be_bytes(q.y, FieldLen))
               => result = InvalidKeyData

\* A valid key cut short by one byte has been rejected with DecodingError.
C5_Witness ==
    /\ ppc = "done" /\ curve_type(public_key) = SECP256K1
    /\ Len(public_key) = 2 * FieldLen
    /\ \E b \in Byte :
           near_public_key_to_affine(public_key \o <<b>>, wasm32).kind = "Ok"
    /\ result = DecodingError

\* the raw blob of a point: the SECP256K1 curve type, then X || Y
RawBlob(p) ==
    <<SECP256K1>> \o to_be_bytes(p.x, FieldLen) \o to_be_bytes(p.y, FieldLen)

\* C6: parsing the raw blob of a valid point that is not the identity
\* returns that point.
C6_RoundTrip ==
    \A k \in 2..ORDER :
        (ppc = "done" /\ public_key = RawBlob(MultiplesOfG[k]))
            => result = Ok(MultiplesOfG[k])

\* The raw blob of 3*G has been parsed.
C6_Witness ==
    /\ ppc = "done" /\ public_key = RawBlob(MultiplesOfG[4])
    /\ result.kind = "Ok"

\* C10: where the curve-type check is absent, the outcome does not depend
\* on the blob's first byte: the blob with any other first byte parses to
\* the same point or the same error, and no blob is rejected with
\* WrongCurveType.
C10_FirstByteIgnored ==
    (ppc = "done" /\ ~wasm32) =>
        /\ \A ct \in CurveTypes :
               near_public_key_to_affine(<<ct>> \o Tail(public_key), FALSE)
                   = result
        /\ result.kind # "WrongCurveType"

\* A blob marked ED25519 whose body is a point of the curve has been parsed
\* to that point where the check is absent.
C10_Witness ==
    /\ ppc = "done" /\ ~wasm32
    /\ curve_type(public_key) = ED25519
    /\ result.kind = "Ok"

====
